---- MODULE Spec2Model ----
(***************************************************************************)
(* Model of src/index.js: the in-memory session registry (`sessions`), the *)
(* per-request closure of POST /instance/create (qrCodePromise, apiTimeout,*)
(* startSock and its connection.update handler), DELETE /instance/delete,  *)
(* POST /message/sendText, the status queries and the messages.upsert      *)
(* handler with its webhook POSTs.                                         *)
(*                                                                         *)
(* Every `await` of the source is a suspension point: the code before it   *)
(* and the code after it are separate steps, and any other handler, timer  *)
(* or request may run in between.  Code between two suspension points runs *)
(* as one step (Node.js runs it to completion), including the event        *)
(* handlers that a call such as sock.end() invokes synchronously and the   *)
(* continuation of an awaited promise that is settled in that step.        *)
(***************************************************************************)
EXTENDS Integers, FiniteSets, Sequences, TLC

\* ---------------------------------------------------------------- bounds
NumIds   == 1      \* instance names in use
MaxReqs  == 2      \* POST /instance/create calls in one behaviour
MaxDels  == 1      \* DELETE /instance/delete calls in flight at a time
MaxSocks == 2      \* makeWASocket calls in one behaviour
MaxQr    == 1      \* qr payloads emitted in one behaviour
MaxMsgs  == 2      \* messages carried by one messages.upsert event
MaxCodes == 2      \* qr payloads emitted in one behaviour of CodesSpec
MaxPosts == 2      \* webhook POSTs issued in one behaviour

Ids   == 1..NumIds
Reqs  == 1..MaxReqs
Dels  == 1..MaxDels
Socks == 1..MaxSocks
Qrs   == 1..MaxQr
Codes == 1..MaxCodes

VARIABLES
    sessions,   \* the Map `sessions`: instance name -> session object
    socks,      \* every socket made by makeWASocket: owner closure, state, pending renders
    reqs,       \* one record per create call: its position and its closure variables
    dels,       \* one record per delete call
    creds,      \* creds[id]: the folder ./auth_info_<id> exists
    nextSock,   \* number of the next socket
    nextQr,     \* number of the next qr payload
    lastSend,   \* the last sendText call and what it did
    expired,    \* qr payloads whose qrGeneratedAt is 60000 ms or more in the past
    posted,     \* the last messages.upsert event and the webhook POSTs it issued
    webhooks,   \* the axios.post calls: how many are pending, how many have settled
    hist        \* history of events, read by the properties only

vars == <<sessions, socks, reqs, dels, creds, nextSock, nextQr, lastSend,
          expired, posted, webhooks, hist>>

\* ------------------------------------------------------------ data model
\* A session object.  present = FALSE stands for "no entry in the Map".
\* obj is the identity of the JS object (the Map hands out references);
\* sock = 0, qrCode = 0, createdAt = 0 stand for undefined/null;
\* isConnected = FALSE stands for undefined or false (both are falsy).
Absent ==
    [present |-> FALSE, obj |-> 0, sock |-> 0, isConnected |-> FALSE,
     qrCode |-> 0, qrRaw |-> 0, qrGeneratedAt |-> 0, createdAt |-> 0]

\* `{ createdAt: new Date() }` made by startSock for socket s
NewSession(s) == [Absent EXCEPT !.present = TRUE, !.obj = s, !.createdAt = s]

\* `{}` made by the qr branch for payload q
EmptySession(q) == [Absent EXCEPT !.present = TRUE, !.obj = 0 - q]

NoPromise == [st |-> "none", val |-> 0, err |-> ""]
NoResp    == [code |-> 0, status |-> "none", qr |-> 0, err |-> ""]

IdleReq ==
    [pc |-> "idle", id |-> 0,
     qrCodeResolve |-> FALSE, qrCodeReject |-> FALSE,
     promise |-> NoPromise, apiTimeout |-> "unset",
     reconnectTimer |-> FALSE,
     resp |-> NoResp,
     \* history
     nResp |-> 0, installed |-> FALSE, firstOcc |-> "none", lateOcc |-> FALSE,
     delivered |-> "none"]

\* closedWith: the reason of the close event the socket emitted;
\* failed: the qr payloads of the socket whose rendering threw
NoSock ==
    [owner |-> 0, state |-> "none", rendering |-> {}, qrSeen |-> FALSE,
     closedWith |-> "none", failed |-> {}]

NoReply == [code |-> 0, message |-> ""]

IdleDel ==
    [pc |-> "idle", id |-> 0, obj |-> 0, sock |-> 0, logoutSock |-> 0,
     resp |-> NoReply, discard |-> "none",
     \* history: the call before this one deleted the same name; how the
     \* logout race ended; whether ws.terminate() threw
     again |-> FALSE, how |-> "none", termThrew |-> FALSE]

NoSend == [id |-> 0, result |-> "none", invoked |-> FALSE, sockState |-> "none"]

NoEvent == [sock |-> 0, type |-> "none", messages |-> <<>>, posts |-> <<>>]

Live(sk) == sk.state \in {"connecting", "open"}

SockId(S, s) == S.reqs[S.socks[s].owner].id

\* The state the handlers read and write, as one value, so that a handler
\* called from several places (sock.end() in create, logout() and
\* ws.terminate() in delete, the protocol's own events) is one operator.
Cur == [sessions |-> sessions, socks |-> socks, reqs |-> reqs, hist |-> hist]

\* ------------------------------------------------- qrCodePromise, apiTimeout
\* resolve()/reject() of a JS promise: only the first call settles it
\* (variant: a second resolve()/reject() replaces the first result)
SettleAgain(p, st, val, err) ==
    IF p.st = "none" THEN p ELSE [st |-> st, val |-> val, err |-> err]

Settle(p, st, val, err) ==
    IF p.st = "pending" THEN [st |-> st, val |-> val, err |-> err] ELSE p

\* clearTimeout(apiTimeout): nothing to clear once it fired
ClearTimeout(t) == IF t = "armed" THEN "cleared" ELSE t

\* which of the four outcomes a settled qrCodePromise carries
PromiseKind(p) ==
    IF p.st = "resolved" THEN (IF p.val = 0 THEN "open" ELSE "code")
    ELSE IF p.st = "rejected"
         THEN (IF p.err = "QR generation timeout" THEN "timeout" ELSE "closed")
         ELSE "none"

\* history: the entry of id has just been removed by delete or by a
\* log-out; recorded (as the number the next socket will get) unless a create
\* for id is still on its way to storing a socket
MarkRemoved(S, id) ==
    IF \E r \in Reqs : S.reqs[r].id = id /\ S.reqs[r].pc \in {"authload", "fetch"}
    THEN S
    ELSE [S EXCEPT !.hist.removedAt[id] = nextSock]

\* history: an outcome of the initial-result wait of closure q has occurred
Occur(q, kind) ==
    IF q.firstOcc = "none" THEN [q EXCEPT !.firstOcc = kind]
    ELSE [q EXCEPT !.lateOcc = TRUE]

\* the response built after `await qrCodePromise` (lines 294-311)
CreateResponse(p, e) ==
    IF p.st = "resolved"
    THEN [code |-> 200,
          status |-> IF e.present /\ e.isConnected THEN "open" ELSE "connecting",
          qr |-> p.val, err |-> ""]
    ELSE [code |-> 500, status |-> "error", qr |-> 0, err |-> p.err]

\* the continuation of `await qrCodePromise`: runs once the promise is
\* settled and the request has reached the await
Resume(S, r) ==
    LET q == S.reqs[r] IN
    IF q.pc = "waiting" /\ q.promise.st \in {"resolved", "rejected"}
    THEN [S EXCEPT !.reqs[r] =
            [q EXCEPT !.pc = "done",
                      !.resp = CreateResponse(q.promise, S.sessions[q.id]),
                      !.nResp = q.nResp + 1,
                      !.delivered = PromiseKind(q.promise)]]
    ELSE S

\* ------------------------------------------- connection.update handler
\* qr branch after `await QRCode.toDataURL(qr)` returned (lines 216-232)
OnQrRendered(S, s, q) ==
    LET r   == S.socks[s].owner
        id  == S.reqs[r].id
        old == S.sessions[id]
        e   == IF old.present THEN old ELSE EmptySession(q)
        e2  == [e EXCEPT !.qrCode = q, !.qrRaw = q, !.qrGeneratedAt = q,
                         !.isConnected = FALSE]
        S1  == [S EXCEPT !.sessions[id] = e2,
                         !.socks[s].rendering = @ \ {q},
                         !.reqs[r] = Occur(@, "code")]
        c   == S1.reqs[r]
        S2  == IF c.qrCodeResolve
               THEN [S1 EXCEPT !.reqs[r] =
                       [c EXCEPT !.apiTimeout = ClearTimeout(c.apiTimeout),
                                 !.promise = Settle(c.promise, "resolved", q, ""),
                                 !.qrCodeResolve = FALSE,
                                 !.qrCodeReject = FALSE]]
               ELSE S1
    IN Resume(S2, r)

\* open branch (lines 268-286)
OnOpen(S, s) ==
    LET r   == S.socks[s].owner
        id  == S.reqs[r].id
        old == S.sessions[id]
        e2  == IF old.present
               THEN [old EXCEPT !.isConnected = TRUE, !.qrCode = 0]
               ELSE old
        S1  == [S EXCEPT !.sessions[id] = e2,
                         !.socks[s].state = "open",
                         !.reqs[r] = Occur(@, "open"),
                         !.hist.closedSinceOpen[id] = FALSE]
        c   == S1.reqs[r]
        S2  == IF c.qrCodeResolve
               THEN [S1 EXCEPT !.reqs[r] =
                       [c EXCEPT !.apiTimeout = ClearTimeout(c.apiTimeout),
                                 !.promise = Settle(c.promise, "resolved", 0, ""),
                                 !.qrCodeResolve = FALSE,
                                 !.qrCodeReject = FALSE]]
               ELSE S1
    IN Resume(S2, r)

\* close branch, statusCode !== DisconnectReason.loggedOut (lines 248-255):
\* setTimeout(() => startSock(), 2000), nothing else
\* (variant: no reconnect once the create call has been answered)
OnCloseTransientWhileCreating(S, s) ==
    LET r  == S.socks[s].owner
        id == S.reqs[r].id
        e  == S.sessions[id]
    IN [S EXCEPT !.socks[s].state = "closed",
                 !.socks[s].closedWith = "transient",
                 !.reqs[r].reconnectTimer = (S.reqs[r].pc # "done"),
                 !.hist.closedSinceOpen[id] =
                     @ \/ (e.present /\ e.isConnected /\ e.sock = s
                              /\ S.socks[s].state = "open")]

OnCloseTransient(S, s) ==
    LET r  == S.socks[s].owner
        id == S.reqs[r].id
        e  == S.sessions[id]
    IN [S EXCEPT !.socks[s].state = "closed",
                 !.socks[s].closedWith = "transient",
                 !.reqs[r].reconnectTimer = TRUE,
                 !.hist.closedSinceOpen[id] =
                     @ \/ (e.present /\ e.isConnected /\ e.sock = s
                              /\ S.socks[s].state = "open")]

\* close branch, statusCode === DisconnectReason.loggedOut (lines 256-264)
\* (variant: sessions.clear() in place of sessions.delete(instanceName))
OnCloseLoggedOutClearsAll(S, s) ==
    LET r   == S.socks[s].owner
        id  == S.reqs[r].id
        S1  == [S EXCEPT !.socks[s].state = "closed",
                         !.socks[s].closedWith = "loggedOut",
                         !.sessions = [n \in DOMAIN S.sessions |-> Absent],
                         !.reqs[r] = Occur(@, "closed"),
                         !.hist.closedSinceOpen[id] = FALSE]
        c   == S1.reqs[r]
        S2  == IF c.qrCodeReject
               THEN [MarkRemoved(S1, id) EXCEPT !.reqs[r] =
                       [c EXCEPT !.apiTimeout = ClearTimeout(c.apiTimeout),
                                 !.promise = Settle(c.promise, "rejected", 0,
                                                    "Session logged out during startup")]]
               ELSE MarkRemoved(S1, id)
    IN Resume(S2, r)

OnCloseLoggedOut(S, s) ==
    LET r   == S.socks[s].owner
        id  == S.reqs[r].id
        S1  == [S EXCEPT !.socks[s].state = "closed",
                         !.socks[s].closedWith = "loggedOut",
                         !.sessions[id] = Absent,
                         !.reqs[r] = Occur(@, "closed"),
                         !.hist.closedSinceOpen[id] = FALSE]
        c   == S1.reqs[r]
        S2  == IF c.qrCodeReject
               THEN [MarkRemoved(S1, id) EXCEPT !.reqs[r] =
                       [c EXCEPT !.apiTimeout = ClearTimeout(c.apiTimeout),
                                 !.promise = Settle(c.promise, "rejected", 0,
                                                    "Session logged out during startup")]]
               ELSE MarkRemoved(S1, id)
    IN Resume(S2, r)

OnClose(S, s, reason) ==
    IF reason = "loggedOut" THEN OnCloseLoggedOut(S, s) ELSE OnCloseTransient(S, s)

\* sock.end(err) / ws.terminate(): the socket emits connection 'close' with an
\* error that carries no loggedOut status code; a closed socket emits nothing
EndSock(S, s) ==
    IF s # 0 /\ Live(S.socks[s]) THEN OnCloseTransient(S, s) ELSE S

\* startSock after `await fetchLatestBaileysVersion()` (lines 122-145):
\* make socket s for closure r and store it in the session object
\* (variant: the session is stored under every key of the Map)
StartSockAnyKey(S, r, s) ==
    LET id  == S.reqs[r].id
        old == S.sessions[id]
        cs  == IF old.present THEN old ELSE NewSession(s)
    IN [S EXCEPT !.socks[s] = [NoSock EXCEPT !.owner = r, !.state = "connecting"],
                 !.sessions = [n \in DOMAIN S.sessions |-> [cs EXCEPT !.sock = s]]]

StartSock(S, r, s) ==
    LET id  == S.reqs[r].id
        old == S.sessions[id]
        cs  == IF old.present THEN old ELSE NewSession(s)
    IN [S EXCEPT !.socks[s] = [NoSock EXCEPT !.owner = r, !.state = "connecting"],
                 !.sessions[id] = [cs EXCEPT !.sock = s]]

\* ------------------------------------------------------------- commit
\* A delete that is suspended in its Promise.race holds a reference to the
\* session object: it sees the sock that startSock stores in that object
\* for as long as the object is the one in the Map.
SyncDels(D, sess) ==
    [d \in Dels |->
        IF D[d].pc = "racing" /\ sess[D[d].id].present /\ sess[D[d].id].obj = D[d].obj
        THEN [D[d] EXCEPT !.sock = sess[D[d].id].sock]
        ELSE D[d]]

Commit(S, D) ==
    /\ sessions' = S.sessions
    /\ socks' = S.socks
    /\ reqs' = S.reqs
    /\ hist' = S.hist
    /\ dels' = SyncDels(D, S.sessions)

\* A reply that has been written stays visible for one step, in which the
\* caller reads it, before anything else runs: every reply of the program
\* is decided by the step that writes it.
Replied ==
    \/ lastSend # NoSend
    \/ \E d \in Dels : dels[d].pc = "done"
    \/ \E r \in Reqs : reqs[r].resp # NoResp
    \/ posted # NoEvent

Init ==
    /\ sessions = [i \in Ids |-> Absent]
    /\ socks = [s \in Socks |-> NoSock]
    /\ reqs = [r \in Reqs |-> IdleReq]
    /\ dels = [d \in Dels |-> IdleDel]
    /\ creds \in [Ids -> BOOLEAN]
    /\ nextSock = 1
    /\ nextQr = 1
    /\ lastSend = NoSend
    /\ expired = {}
    /\ posted = NoEvent
    /\ webhooks = [pending |-> 0, settled |-> 0]
    /\ hist = [created |-> {}, overlap |-> {}, lastDeleted |-> 0,
               removedAt |-> [i \in Ids |-> 0],
               closedSinceOpen |-> [i \in Ids |-> FALSE]]

\* ------------------------------------------------ POST /instance/create
InFlight(q) == q.pc \in {"authload", "fetch", "waiting"}

\* lines 43-85: what create does with the entry it finds
\*   "open"    - return 'Instance already connected'
\*   "qr"      - return the stored qr
\*   "replace" - end the old socket, delete the entry, start afresh
\*   "fresh"   - no entry
\* (variant: the stored qr is not looked at)
ExistingCheckNoQr(e) ==
    IF e.present /\ e.isConnected THEN "open"
    ELSE IF e.present THEN "replace"
    ELSE "fresh"

ExistingCheck(e) ==
    IF e.present /\ e.isConnected THEN "open"
    ELSE IF e.present /\ e.qrCode # 0 THEN "qr"
    ELSE IF e.present THEN "replace"
    ELSE "fresh"

\* lines 37-96, up to `await useMultiFileAuthState(authPath)`
CreateStart(r, id, rmOk) ==
    /\ ~Replied
    /\ reqs[r].pc = "idle"
    /\ \A r2 \in Reqs : r2 < r => reqs[r2].pc # "idle"
    /\ LET e    == sessions[id]
           what == ExistingCheck(e)
           over == {{r, r2} : r2 \in {x \in Reqs : InFlight(reqs[x]) /\ reqs[x].id = id}}
           S0   == [Cur EXCEPT !.reqs[r].id = id,
                               !.hist.created = @ \cup {id},
                               !.hist.lastDeleted = IF @ = id THEN 0 ELSE @,
                               !.hist.removedAt[id] = 0,
                               !.hist.overlap = @ \cup over]
       IN CASE what = "open" ->
                 /\ rmOk
                 /\ Commit([S0 EXCEPT !.reqs[r].pc = "done", !.reqs[r].nResp = 1,
                              !.reqs[r].resp = [code |-> 200, status |-> "open",
                                                qr |-> 0, err |-> ""]], dels)
                 /\ UNCHANGED creds
            [] what = "qr" ->
                 /\ rmOk
                 /\ Commit([S0 EXCEPT !.reqs[r].pc = "done", !.reqs[r].nResp = 1,
                              !.reqs[r].resp = [code |-> 200, status |-> "connecting",
                                                qr |-> e.qrCode, err |-> ""]], dels)
                 /\ UNCHANGED creds
            [] OTHER ->
                 LET S1 == IF what = "replace"
                           THEN [EndSock(S0, e.sock) EXCEPT !.sessions[id] = Absent]
                           ELSE S0
                 IN IF creds[id] /\ ~rmOk
                    THEN \* fs.rmSync throws: outer catch answers 500
                         /\ Commit([S1 EXCEPT !.reqs[r].pc = "done", !.reqs[r].nResp = 1,
                                      !.reqs[r].resp = [code |-> 500, status |-> "error",
                                                        qr |-> 0, err |-> "rmSync"]], dels)
                         /\ UNCHANGED creds
                    ELSE /\ rmOk
                         /\ Commit([S1 EXCEPT !.reqs[r].pc = "authload"], dels)
                         /\ creds' = [creds EXCEPT ![id] = FALSE]
    /\ UNCHANGED <<nextSock, nextQr, lastSend, expired, posted, webhooks>>

\* lines 96-119: useMultiFileAuthState returned; the promise and the timer
\* are made, startSock is called and suspends in fetchLatestBaileysVersion
CreateAuthLoaded(r) ==
    /\ ~Replied
    /\ reqs[r].pc = "authload"
    /\ Commit([Cur EXCEPT !.reqs[r] =
                 [@ EXCEPT !.pc = "fetch",
                           !.promise = [st |-> "pending", val |-> 0, err |-> ""],
                           !.qrCodeResolve = TRUE, !.qrCodeReject = TRUE,
                           !.apiTimeout = "armed"]], dels)
    /\ creds' = [creds EXCEPT ![reqs[r].id] = TRUE]
    /\ UNCHANGED <<nextSock, nextQr, lastSend, expired, posted, webhooks>>

\* useMultiFileAuthState throws: outer catch (lines 313-318)
CreateAuthFails(r) ==
    /\ ~Replied
    /\ reqs[r].pc = "authload"
    /\ Commit([Cur EXCEPT !.reqs[r] =
                 [@ EXCEPT !.pc = "done", !.nResp = @ + 1,
                           !.resp = [code |-> 500, status |-> "error", qr |-> 0,
                                     err |-> "auth"]]], dels)
    /\ UNCHANGED <<creds, nextSock, nextQr, lastSend, expired, posted, webhooks>>

\* lines 119-145 and 291-295: the version fetch returned, the socket is made
\* and stored, startSock returns and the request awaits qrCodePromise
CreateInstall(r) ==
    /\ ~Replied
    /\ reqs[r].pc = "fetch"
    /\ nextSock <= MaxSocks
    /\ LET S1 == StartSock(Cur, r, nextSock)
           S2 == [S1 EXCEPT !.reqs[r].pc = "waiting", !.reqs[r].installed = TRUE]
       IN Commit(Resume(S2, r), dels)
    /\ nextSock' = nextSock + 1
    /\ UNCHANGED <<creds, nextQr, lastSend, expired, posted, webhooks>>

\* startSock throws (version fetch or makeWASocket): outer catch answers 500;
\* the timer stays armed
CreateStartSockFails(r) ==
    /\ ~Replied
    /\ reqs[r].pc = "fetch"
    /\ Commit([Cur EXCEPT !.reqs[r] =
                 [@ EXCEPT !.pc = "done", !.nResp = @ + 1,
                           !.resp = [code |-> 500, status |-> "error", qr |-> 0,
                                     err |-> "startSock"]]], dels)
    /\ UNCHANGED <<creds, nextSock, nextQr, lastSend, expired, posted, webhooks>>

\* lines 108-115: the body of the apiTimeout callback: reject the promise
\* if it is still pending and forget resolve/reject
\* (variant: the callback also ends the closure's socket and removes the entry)
OnApiTimeoutStops(S, r) ==
    LET q  == Occur(S.reqs[r], "timeout")
        q2 == IF q.qrCodeReject
              THEN [q EXCEPT !.promise = Settle(q.promise, "rejected", 0,
                                                "QR generation timeout"),
                             !.qrCodeResolve = FALSE, !.qrCodeReject = FALSE]
              ELSE q
        e  == S.sessions[q.id]
        S1 == IF e.present THEN EndSock(S, e.sock) ELSE S
    IN [S1 EXCEPT !.reqs[r] = [q2 EXCEPT !.apiTimeout = "fired"],
                  !.sessions[q.id] = Absent]

OnApiTimeout(S, r) ==
    LET q  == Occur(S.reqs[r], "timeout")
        q2 == IF q.qrCodeReject
              THEN [q EXCEPT !.promise = Settle(q.promise, "rejected", 0,
                                                "QR generation timeout"),
                             !.qrCodeResolve = FALSE, !.qrCodeReject = FALSE]
              ELSE q
    IN [S EXCEPT !.reqs[r] = [q2 EXCEPT !.apiTimeout = "fired"]]

\* lines 108-115: the apiTimeout callback runs, 60000 ms after it was set
TimeoutFires(r) ==
    /\ ~Replied
    /\ reqs[r].apiTimeout = "armed"
    /\ Commit(Resume(OnApiTimeout(Cur, r), r), dels)
    /\ UNCHANGED <<creds, nextSock, nextQr, lastSend, expired, posted, webhooks>>

\* line 255: the reconnect timer of closure r fires and startSock runs again
Reconnect(r) ==
    /\ ~Replied
    /\ reqs[r].reconnectTimer
    /\ nextSock <= MaxSocks
    /\ Commit(StartSock([Cur EXCEPT !.reqs[r].reconnectTimer = FALSE], r, nextSock), dels)
    /\ nextSock' = nextSock + 1
    /\ UNCHANGED <<creds, nextQr, lastSend, expired, posted, webhooks>>

\* ------------------------------------------------- protocol events
\* connection.update { qr }: the handler starts QRCode.toDataURL and suspends
EvQrUpTo(s, max) ==
    /\ ~Replied
    /\ socks[s].state = "connecting"
    /\ nextQr <= max
    /\ Commit([Cur EXCEPT !.socks[s].rendering = @ \cup {nextQr},
                          !.socks[s].qrSeen = TRUE], dels)
    /\ nextQr' = nextQr + 1
    /\ UNCHANGED <<creds, nextSock, lastSend, expired, posted, webhooks>>

EvQr(s) == EvQrUpTo(s, MaxQr)

QrRendered(s, q) ==
    /\ ~Replied
    /\ q \in socks[s].rendering
    /\ Commit(OnQrRendered(Cur, s, q), dels)
    /\ UNCHANGED <<creds, nextSock, nextQr, lastSend, expired, posted, webhooks>>

\* lines 234-236: the catch of the qr branch logs the error
\* (variant: the error also rejects the pending qrCodePromise)
OnQrRenderFailedRejects(S, s, q) ==
    LET r  == S.socks[s].owner
        S1 == [S EXCEPT !.socks[s].rendering = @ \ {q},
                        !.socks[s].failed = @ \cup {q}]
        c  == S1.reqs[r]
        S2 == IF c.qrCodeReject
              THEN [S1 EXCEPT !.reqs[r] =
                      [c EXCEPT !.apiTimeout = ClearTimeout(c.apiTimeout),
                                !.promise = Settle(c.promise, "rejected", 0, "render"),
                                !.qrCodeResolve = FALSE, !.qrCodeReject = FALSE]]
              ELSE S1
    IN Resume(S2, r)

OnQrRenderFailed(S, s, q) ==
    [S EXCEPT !.socks[s].rendering = @ \ {q},
              !.socks[s].failed = @ \cup {q}]

\* QRCode.toDataURL throws
QrRenderFails(s, q) ==
    /\ ~Replied
    /\ q \in socks[s].rendering
    /\ Commit(OnQrRenderFailed(Cur, s, q), dels)
    /\ UNCHANGED <<creds, nextSock, nextQr, lastSend, expired, posted, webhooks>>

EvOpen(s) ==
    /\ ~Replied
    /\ socks[s].state = "connecting"
    /\ Commit(OnOpen(Cur, s), dels)
    /\ UNCHANGED <<creds, nextSock, nextQr, lastSend, expired, posted, webhooks>>

EvClose(s, reason) ==
    /\ ~Replied
    /\ Live(socks[s])
    /\ Commit(OnClose(Cur, s, reason), dels)
    /\ UNCHANGED <<creds, nextSock, nextQr, lastSend, expired, posted, webhooks>>

\* ------------------------------------------------ messages.upsert handler
\* The instance name of id: the callers use the format tenant_{uuid}
\* (line 185); a name is the sequence of its parts.
InstanceName(id) == <<"tenant_", id>>

\* String.prototype.replace(part, ''): the first occurrence is removed
RECURSIVE Replace(_, _)
Replace(name, part) ==
    IF name = <<>> THEN <<>>
    ELSE IF Head(name) = part THEN Tail(name)
    ELSE <<Head(name)>> \o Replace(Tail(name), part)

\* line 190: process.env.BACKEND_URL || 'http://backend:8000', the same for
\* the life of the process
BackendUrl == "http://backend:8000"

\* lines 186-191
WebhookUrl(instanceName) ==
    <<BackendUrl, "/api/v1/webhook/evolution/">> \o Replace(instanceName, "tenant_")

\* The messages an event can carry.  "" stands for a field that is missing.
Message(fromMe, hasMessage, conversation, extendedText, messageTimestamp) ==
    [key |-> [remoteJid |-> "jid", fromMe |-> fromMe],
     hasMessage |-> hasMessage,
     message |-> [conversation |-> conversation, extendedText |-> extendedText],
     messageTimestamp |-> messageTimestamp]

Messages ==
    { Message(FALSE, TRUE, "hi", "", "t1"),    \* text
      Message(FALSE, TRUE, "hi", "", ""),      \* text without a timestamp
      Message(FALSE, TRUE, "", "hi", "t1"),    \* extended text
      Message(FALSE, TRUE, "", "", "t1"),      \* no text (media)
      Message(TRUE, TRUE, "hi", "", "t1"),     \* sent by the account itself
      Message(FALSE, FALSE, "", "", "t1") }    \* no message body

Events ==
    UNION {[1..n -> Messages] : n \in 1..MaxMsgs}

\* lines 163-168: the three `continue`s
\* (variant: without the fromMe test)
ForwardedAlsoOwn(msg) ==
    /\ msg.hasMessage
    /\ (IF msg.message.conversation # "" THEN msg.message.conversation
        ELSE msg.message.extendedText) # ""

Forwarded(msg) ==
    /\ msg.hasMessage
    /\ ~msg.key.fromMe
    /\ (IF msg.message.conversation # "" THEN msg.message.conversation
        ELSE msg.message.extendedText) # ""

\* lines 172-179
\* (variant: type "message" and a field named timestamp)
WebhookPayloadMessage(msg) ==
    [type |-> "message",
     data |-> [key |-> msg.key, message |-> msg.message,
               timestamp |-> IF msg.messageTimestamp # ""
                             THEN msg.messageTimestamp ELSE "now"]]

WebhookPayload(msg) ==
    [type |-> "messages.upsert",
     data |-> [key |-> msg.key, message |-> msg.message,
               messageTimestamp |-> IF msg.messageTimestamp # ""
                                    THEN msg.messageTimestamp ELSE "now"]]

\* lines 159-206: one POST per forwarded message, in order; axios.post is
\* not awaited
Posts(id, type, messages) ==
    IF type # "notify" THEN <<>>
    ELSE LET fw == SelectSeq(messages, Forwarded)
         IN [i \in 1..Len(fw) |->
                [url |-> WebhookUrl(InstanceName(id)), payload |-> WebhookPayload(fw[i])]]

\* socket s emits messages.upsert; every axios.post it makes is pending
EvMessages(s, type, messages) ==
    /\ ~Replied
    /\ Live(socks[s])
    /\ LET posts == Posts(SockId(Cur, s), type, messages) IN
       /\ webhooks.pending + webhooks.settled + Len(posts) <= MaxPosts
       /\ posted' = [sock |-> s, type |-> type, messages |-> messages, posts |-> posts]
       /\ webhooks' = [webhooks EXCEPT !.pending = @ + Len(posts)]
    /\ UNCHANGED <<sessions, socks, reqs, dels, creds, nextSock, nextQr, lastSend,
                   expired, hist>>

\* lines 194-201: the promise of axios.post settles; a rejection (network
\* error, status outside 2xx) runs the .catch, which logs
\* (variant: a failed POST is issued again)
OnPostSettledRetries(w, outcome) ==
    IF outcome = "ok"
    THEN [pending |-> w.pending - 1, settled |-> w.settled + 1]
    ELSE [pending |-> w.pending, settled |-> w.settled + 1]

OnPostSettled(w, outcome) ==
    [pending |-> w.pending - 1, settled |-> w.settled + 1]

\* a pending POST settles; one that never completes stays pending
PostSettles(outcome) ==
    /\ ~Replied
    /\ webhooks.pending > 0
    /\ webhooks' = OnPostSettled(webhooks, outcome)
    /\ UNCHANGED <<sessions, socks, reqs, dels, creds, nextSock, nextQr, lastSend,
                   expired, posted, hist>>

\* ------------------------------------- POST /message/sendText/:instanceName
\* lines 470-487; ok is whether sock.sendMessage returns or throws
Send(id, ok) ==
    /\ ~Replied
    /\ LET e == sessions[id] IN
       lastSend' =
         IF ~e.present \/ ~e.isConnected
         THEN [id |-> id, result |-> "NotConnected", invoked |-> FALSE,
               sockState |-> IF e.present /\ e.sock # 0 THEN socks[e.sock].state ELSE "none"]
         ELSE IF e.sock = 0
         THEN \* session.sock is undefined: TypeError, caught, 500
              [id |-> id, result |-> "TransportError", invoked |-> FALSE,
               sockState |-> "none"]
         ELSE [id |-> id, result |-> IF ok THEN "success" ELSE "TransportError",
               invoked |-> TRUE, sockState |-> socks[e.sock].state]
    /\ UNCHANGED <<sessions, socks, reqs, dels, creds, nextSock, nextQr, expired,
                   posted, webhooks, hist>>

\* ------------------------------------------------------- status queries
\* GET /instance/fetchInstances?instanceName=id (lines 380-391)
FetchInstances(id) ==
    LET e == sessions[id] IN
    IF ~e.present
    THEN [code |-> 404, connectionStatus |-> "none", qrcode |-> 0, createdAt |-> 0]
    ELSE [code |-> 200,
          connectionStatus |-> IF e.isConnected THEN "open" ELSE "close",
          qrcode |-> e.qrCode, createdAt |-> e.createdAt]

\* The close reason kept in a session object: the close branch reads
\* lastDisconnect to choose its path and to log (lines 241-246) and stores it
\* nowhere, so the field is undefined in every session object
LastError(e) == "none"

\* GET /instance/qr/:instanceName (lines 325-356): the stored qr code is
\* returned only if `Date.now() - session.qrGeneratedAt < 60000`
QrQuery(id) ==
    LET e == sessions[id] IN
    IF ~e.present THEN [code |-> 404, status |-> "none", qrcode |-> 0]
    ELSE IF e.isConnected THEN [code |-> 200, status |-> "connected", qrcode |-> 0]
    ELSE IF e.qrCode # 0 /\ e.qrGeneratedAt # 0 /\ e.qrGeneratedAt \notin expired
    THEN [code |-> 200, status |-> "qr", qrcode |-> e.qrCode]
    ELSE [code |-> 200, status |-> "waiting", qrcode |-> 0]

\* the clock: 60000 ms have passed since the qrGeneratedAt = Date.now() of
\* line 221 of a stored qr code
QrExpires(q) ==
    /\ ~Replied
    /\ q \notin expired
    /\ \E id \in Ids : sessions[id].present /\ sessions[id].qrGeneratedAt = q
    /\ expired' = expired \cup {q}
    /\ UNCHANGED <<sessions, socks, reqs, dels, creds, nextSock, nextQr, lastSend,
                   posted, webhooks, hist>>

\* ------------------------------- DELETE /instance/delete/:instanceName
\* line 447 / 452: what the caller gets, whatever failed on the way
\* (variant: a failed cleanup step reaches the caller)
DeleteReplyPropagates(logoutOutcome, termThrows, rmFails) ==
    IF logoutOutcome = "failed" \/ termThrows \/ rmFails
    THEN [code |-> 500, message |-> "error"]
    ELSE [code |-> 200, message |-> "Instance deleted"]

DeleteReply(logoutOutcome, termThrows, rmFails) ==
    [code |-> 200, message |-> "Instance deleted"]

\* line 432: sessions.delete(instanceName), after the inner try/catch
\* (variant: the entry is kept when closing the socket failed)
RemoveEntryIfClosed(S, id, logoutOutcome, termThrows) ==
    IF termThrows \/ logoutOutcome = "timeout" THEN S
    ELSE [S EXCEPT !.sessions[id] = Absent]

RemoveEntry(S, id, logoutOutcome, termThrows) ==
    [S EXCEPT !.sessions[id] = Absent]

\* lines 435-445: the auth folder is removed if it exists; a failure is logged
DiscardCreds(has, rmFails) ==
    IF ~has THEN [left |-> FALSE, discard |-> "nothing"]
    ELSE IF rmFails THEN [left |-> TRUE, discard |-> "failed"]
    ELSE [left |-> FALSE, discard |-> "removed"]

\* lines 402-416: look the session up; with a socket, call logout() and
\* suspend in Promise.race; without, go straight to the cleanup
DeleteStart(d, id, rmFails) ==
    /\ ~Replied
    /\ dels[d].pc = "idle"
    /\ \A d2 \in Dels : d2 < d => dels[d2].pc # "idle"
    /\ LET e   == sessions[id]
           new == [IdleDel EXCEPT !.again = (hist.lastDeleted = id)]
       IN
       IF e.present /\ e.sock # 0
       THEN /\ ~rmFails
            /\ Commit(Cur, [dels EXCEPT ![d] =
                    [new EXCEPT !.pc = "racing", !.id = id, !.obj = e.obj,
                              !.sock = e.sock, !.logoutSock = e.sock]])
            /\ UNCHANGED creds
       ELSE LET dc == DiscardCreds(creds[id], rmFails)
                S0 == [MarkRemoved(Cur, id) EXCEPT !.hist.lastDeleted = id]
                S1 == IF e.present THEN RemoveEntry(S0, id, "none", FALSE) ELSE S0
            IN /\ (rmFails => creds[id])
               /\ Commit(S1, [dels EXCEPT ![d] =
                       [new EXCEPT !.pc = "done", !.id = id,
                                 !.resp = DeleteReply("none", FALSE, rmFails),
                                 !.discard = dc.discard]])
               /\ creds' = [creds EXCEPT ![id] = dc.left]
    /\ UNCHANGED <<nextSock, nextQr, lastSend, expired, posted, webhooks>>

\* lines 408-416: Promise.race([logoutPromise, timeoutPromise]) ends with
\* the outcome of logout() or, logout() being still pending after 2000 ms,
\* with the timer
\* (variant: `await session.sock.logout()` without the timer)
LogoutRaceNoTimer ==
    {"loggedOut", "failed"}

LogoutRace ==
    {"loggedOut", "failed", "timeout"}

\* lines 416-447: the race is over.  logoutOutcome is how:
\*   "loggedOut" - logout() resolved: the socket it was called on, if still
\*                 live, has emitted close with the loggedOut status code
\*   "failed"    - logout() rejected
\*   "timeout"   - the 2000 ms timer won
\* then ws.terminate() on the session's socket (termThrows: it throws),
\* sessions.delete, the auth folder cleanup and the reply.
DeleteFinish(d, logoutOutcome, termThrows, rmFails) ==
    /\ ~Replied
    /\ dels[d].pc = "racing"
    /\ logoutOutcome \in LogoutRace
    /\ LET dl == dels[d]
           id == dl.id
           S1 == IF logoutOutcome = "loggedOut" /\ Live(socks[dl.logoutSock])
                 THEN OnCloseLoggedOut(Cur, dl.logoutSock)
                 ELSE Cur
           S2 == IF termThrows THEN S1 ELSE EndSock(S1, dl.sock)
           S3 == RemoveEntry(S2, id, logoutOutcome, termThrows)
           S4 == [MarkRemoved(S3, id) EXCEPT !.hist.lastDeleted = id]
           dc == DiscardCreds(creds[id], rmFails)
       IN /\ (rmFails => creds[id])
          /\ Commit(S4, [dels EXCEPT ![d] =
                  [@ EXCEPT !.pc = "done",
                            !.resp = DeleteReply(logoutOutcome, termThrows, rmFails),
                            !.discard = dc.discard,
                            !.how = logoutOutcome, !.termThrew = termThrows]])
          /\ creds' = [creds EXCEPT ![id] = dc.left]
    /\ UNCHANGED <<nextSock, nextQr, lastSend, expired, posted, webhooks>>

\* ---------------------------------------------------------------- Next
Return ==
    /\ Replied
    /\ lastSend' = NoSend
    /\ dels' = [d \in Dels |-> IF dels[d].pc = "done" THEN IdleDel ELSE dels[d]]
    /\ reqs' = [r \in Reqs |-> [reqs[r] EXCEPT !.resp = NoResp]]
    /\ posted' = NoEvent
    /\ UNCHANGED <<sessions, socks, creds, nextSock, nextQr, expired, webhooks, hist>>

Next ==
    \/ \E r \in Reqs, id \in Ids, rmOk \in BOOLEAN : CreateStart(r, id, rmOk)
    \/ \E r \in Reqs : CreateAuthLoaded(r)
    \/ \E r \in Reqs : CreateAuthFails(r)
    \/ \E r \in Reqs : CreateInstall(r)
    \/ \E r \in Reqs : CreateStartSockFails(r)
    \/ \E r \in Reqs : TimeoutFires(r)
    \/ \E r \in Reqs : Reconnect(r)
    \/ \E s \in Socks : EvQr(s)
    \/ \E s \in Socks, q \in Qrs : QrRendered(s, q)
    \/ \E s \in Socks, q \in Qrs : QrRenderFails(s, q)
    \/ \E s \in Socks : EvOpen(s)
    \/ \E s \in Socks, reason \in {"transient", "loggedOut"} : EvClose(s, reason)
    \/ \E id \in Ids, ok \in BOOLEAN : Send(id, ok)
    \/ \E d \in Dels, id \in Ids, rmFails \in BOOLEAN : DeleteStart(d, id, rmFails)
    \/ \E d \in Dels, lo \in {"loggedOut", "failed", "timeout"},
          tt \in BOOLEAN, rf \in BOOLEAN : DeleteFinish(d, lo, tt, rf)
    \/ Return

Spec == Init /\ [][Next]_vars

\* The same program with the clock of the qr codes' age
NextAge ==
    \/ \E r \in Reqs, id \in Ids, rmOk \in BOOLEAN : CreateStart(r, id, rmOk)
    \/ \E r \in Reqs : CreateAuthLoaded(r)
    \/ \E r \in Reqs : CreateAuthFails(r)
    \/ \E r \in Reqs : CreateInstall(r)
    \/ \E r \in Reqs : CreateStartSockFails(r)
    \/ \E r \in Reqs : TimeoutFires(r)
    \/ \E r \in Reqs : Reconnect(r)
    \/ \E s \in Socks : EvQr(s)
    \/ \E s \in Socks, q \in Qrs : QrRendered(s, q)
    \/ \E s \in Socks, q \in Qrs : QrRenderFails(s, q)
    \/ \E s \in Socks : EvOpen(s)
    \/ \E s \in Socks, reason \in {"transient", "loggedOut"} : EvClose(s, reason)
    \/ \E id \in Ids, ok \in BOOLEAN : Send(id, ok)
    \/ \E d \in Dels, id \in Ids, rmFails \in BOOLEAN : DeleteStart(d, id, rmFails)
    \/ \E d \in Dels, lo \in {"loggedOut", "failed", "timeout"},
          tt \in BOOLEAN, rf \in BOOLEAN : DeleteFinish(d, lo, tt, rf)
    \/ Return
    \/ \E q \in Qrs : QrExpires(q)

AgeSpec == Init /\ [][NextAge]_vars

\* The steps that write the Map or read it for a reply, with a name that is
\* used by delete and sendText but is never passed to create
Other == NumIds + 1
Names == Ids \cup {Other}

InitNames ==
    /\ sessions = [i \in Names |-> Absent]
    /\ socks = [s \in Socks |-> NoSock]
    /\ reqs = [r \in Reqs |-> IdleReq]
    /\ dels = [d \in Dels |-> IdleDel]
    /\ creds \in [Names -> BOOLEAN]
    /\ nextSock = 1
    /\ nextQr = 1
    /\ lastSend = NoSend
    /\ expired = {}
    /\ posted = NoEvent
    /\ webhooks = [pending |-> 0, settled |-> 0]
    /\ hist = [created |-> {}, overlap |-> {}, lastDeleted |-> 0,
               removedAt |-> [i \in Names |-> 0],
               closedSinceOpen |-> [i \in Names |-> FALSE]]

NextNames ==
    \/ \E r \in Reqs, id \in Ids, rmOk \in BOOLEAN : CreateStart(r, id, rmOk)
    \/ \E r \in Reqs : CreateAuthLoaded(r)
    \/ \E r \in Reqs : CreateInstall(r)
    \/ \E r \in Reqs : Reconnect(r)
    \/ \E s \in Socks : EvQr(s)
    \/ \E s \in Socks, q \in Qrs : QrRendered(s, q)
    \/ \E s \in Socks : EvOpen(s)
    \/ \E s \in Socks, reason \in {"transient", "loggedOut"} : EvClose(s, reason)
    \/ \E id \in Names, ok \in BOOLEAN : Send(id, ok)
    \/ \E d \in Dels, id \in Names, rmFails \in BOOLEAN : DeleteStart(d, id, rmFails)
    \/ \E d \in Dels, lo \in {"loggedOut", "failed", "timeout"},
          tt \in BOOLEAN, rf \in BOOLEAN : DeleteFinish(d, lo, tt, rf)
    \/ Return

NamesSpec == InitNames /\ [][NextNames]_vars

\* A session from create to open, close and reconnect, and the messages its
\* socket delivers
NextWebhook ==
    \/ \E r \in Reqs, id \in Ids, rmOk \in BOOLEAN : CreateStart(r, id, rmOk)
    \/ \E r \in Reqs : CreateAuthLoaded(r)
    \/ \E r \in Reqs : CreateInstall(r)
    \/ \E r \in Reqs : Reconnect(r)
    \/ \E s \in Socks : EvOpen(s)
    \/ \E s \in Socks, reason \in {"transient", "loggedOut"} : EvClose(s, reason)
    \/ \E s \in Socks, type \in {"notify", "append"}, messages \in Events :
          EvMessages(s, type, messages)
    \/ \E outcome \in {"ok", "network", "non2xx"} : PostSettles(outcome)
    \/ Return

WebhookSpec == Init /\ [][NextWebhook]_vars

\* One session from create on, whose socket issues several qr codes
NextCodes ==
    \/ \E r \in Reqs, id \in Ids, rmOk \in BOOLEAN : CreateStart(r, id, rmOk)
    \/ \E r \in Reqs : CreateAuthLoaded(r)
    \/ \E r \in Reqs : CreateInstall(r)
    \/ \E r \in Reqs : TimeoutFires(r)
    \/ \E r \in Reqs : Reconnect(r)
    \/ \E s \in Socks : EvQrUpTo(s, MaxCodes)
    \/ \E s \in Socks, q \in Codes : QrRendered(s, q)
    \/ \E s \in Socks, q \in Codes : QrRenderFails(s, q)
    \/ \E s \in Socks : EvOpen(s)
    \/ \E s \in Socks, reason \in {"transient", "loggedOut"} : EvClose(s, reason)
    \/ Return

CodesSpec == Init /\ [][NextCodes]_vars

\* Two names, neither with an auth folder at the start, each of which may
\* be created, opened, closed and deleted (the steps that write the state)
InitPair ==
    /\ InitNames
    /\ \A n \in Names : ~creds[n]

NextPair ==
    \/ \E r \in Reqs, id \in Names, rmOk \in BOOLEAN : CreateStart(r, id, rmOk)
    \/ \E r \in Reqs : CreateAuthLoaded(r)
    \/ \E r \in Reqs : CreateInstall(r)
    \/ \E r \in Reqs : Reconnect(r)
    \/ \E s \in Socks : EvQr(s)
    \/ \E s \in Socks, q \in Qrs : QrRendered(s, q)
    \/ \E s \in Socks : EvOpen(s)
    \/ \E s \in Socks, reason \in {"transient", "loggedOut"} : EvClose(s, reason)
    \/ \E d \in Dels, id \in Names, rmFails \in BOOLEAN : DeleteStart(d, id, rmFails)
    \/ \E d \in Dels, lo \in {"loggedOut", "failed", "timeout"},
          tt \in BOOLEAN, rf \in BOOLEAN : DeleteFinish(d, lo, tt, rf)
    \/ Return

PairSpec == InitPair /\ [][NextPair]_vars

\* ------------------------------------------------------------ fairness
\* What the Node.js event loop guarantees: a timer that was set fires (the
\* 2000 ms timer of delete's race, line 413), and a reply that was written
\* is sent.  Nothing is assumed of logout(), of the protocol's events or of
\* the callers.  The timer's step is strongly fair because the one-step
\* visibility of replies disables it for a moment, which no real timer is.
\* The same holds of the 2000 ms reconnect timer of line 255.
ReconnectTimerFires(r) == Reconnect(r)

DeleteTimerFires ==
    \E d \in Dels, tt \in BOOLEAN, rf \in BOOLEAN : DeleteFinish(d, "timeout", tt, rf)

\* The behaviours in which no qr code is issued and no send is made: what a
\* delete reads (the entry and its socket) changes by create, reconnect,
\* open, close and delete only.
NextNoQr ==
    \/ \E r \in Reqs, id \in Ids, rmOk \in BOOLEAN : CreateStart(r, id, rmOk)
    \/ \E r \in Reqs : CreateAuthLoaded(r)
    \/ \E r \in Reqs : CreateAuthFails(r)
    \/ \E r \in Reqs : CreateInstall(r)
    \/ \E r \in Reqs : CreateStartSockFails(r)
    \/ \E r \in Reqs : TimeoutFires(r)
    \/ \E r \in Reqs : Reconnect(r)
    \/ \E s \in Socks : EvOpen(s)
    \/ \E s \in Socks, reason \in {"transient", "loggedOut"} : EvClose(s, reason)
    \/ \E d \in Dels, id \in Ids, rmFails \in BOOLEAN : DeleteStart(d, id, rmFails)
    \/ \E d \in Dels, lo \in {"loggedOut", "failed", "timeout"},
          tt \in BOOLEAN, rf \in BOOLEAN : DeleteFinish(d, lo, tt, rf)
    \/ Return

FairSpec ==
    /\ Init /\ [][NextNoQr]_vars
    /\ SF_vars(DeleteTimerFires)
    /\ \A r \in Reqs : SF_vars(ReconnectTimerFires(r))
    /\ WF_vars(Return)

\* ================================================================ claims

C2_AtMostOneCreateInstalls ==
    \A pair \in hist.overlap : \E r \in pair : ~reqs[r].installed

\* C3: the initial-result wait of a create call is answered once, by the
\* first of {code, open, terminal close, timeout} that occurs; what occurs
\* later changes neither the settled promise nor the answer.
\* (A code has occurred when its image is rendered, lines 215-216.)
C3_ExactlyOneOutcome ==
    \A r \in Reqs :
        /\ reqs[r].nResp <= 1
        /\ (reqs[r].promise.st \in {"resolved", "rejected"}
              => PromiseKind(reqs[r].promise) = reqs[r].firstOcc)
        /\ (reqs[r].promise.st = "pending" => reqs[r].firstOcc = "none")
        /\ (reqs[r].delivered # "none"
              => reqs[r].delivered = reqs[r].firstOcc /\ reqs[r].nResp = 1)

\* an answer was delivered and a further outcome has occurred since
C3_Witness ==
    \E r \in Reqs :
        /\ reqs[r].delivered # "none"
        /\ reqs[r].lateOcc
        /\ reqs[r].nResp = 1

\* C4: once the initial-result deadline of a create call has elapsed (its
\* apiTimeout has fired), the call has returned.
C4_ReturnsByDeadline ==
    \A r \in Reqs : reqs[r].apiTimeout = "fired" => reqs[r].pc = "done"

\* C5: an entry that is open holds no qr code, and once a socket that
\* issued a code has opened and its events are processed, the entry that
\* holds the socket has no qr code.
C5_OpenHasNoArtifact ==
    /\ \A id \in Ids :
          sessions[id].present /\ sessions[id].isConnected => sessions[id].qrCode = 0
    /\ \A s \in Socks :
          (/\ socks[s].state = "open" /\ socks[s].qrSeen /\ socks[s].rendering = {}
           /\ sessions[SockId(Cur, s)].present
           /\ sessions[SockId(Cur, s)].sock = s)
          => sessions[SockId(Cur, s)].qrCode = 0

\* C6: from a transient close of an open instance until its next open
\* event, the status query does not report 'open'.
C6_NotOpenAfterTransientClose ==
    \A id \in Ids :
        hist.closedSinceOpen[id] /\ sessions[id].present
          => FetchInstances(id).connectionStatus # "open"

\* C7: a sendText for a name whose socket is not open (no entry, connecting,
\* closed and waiting to reconnect) is answered NotConnected and does not
\* call sock.sendMessage.
C7_SendNeedsOpen ==
    (lastSend.result # "none" /\ lastSend.sockState # "open")
      => (lastSend.result = "NotConnected" /\ ~lastSend.invoked)

\* C8: once delete(id) has answered or a log-out has removed the entry of
\* id, and until the next create(id), the registry has no entry for id and
\* no socket is made for id.
C8_NoEntryUntilNextCreate ==
    \A id \in Ids :
        hist.removedAt[id] # 0
          => /\ ~sessions[id].present
             /\ \A s \in Socks :
                   s >= hist.removedAt[id]
                     => socks[s].state = "none" \/ SockId(Cur, s) # id

\* C9: every delete call is answered 200, whatever failed on the way.
C9_DeleteAlwaysAcks ==
    \A d \in Dels : dels[d].pc = "done" => dels[d].resp.code = 200

\* a delete repeated on a name that has no entry, whose removal of the auth
\* folder failed, was answered 200
C9_Witness ==
    \E d \in Dels :
        /\ dels[d].pc = "done" /\ dels[d].again
        /\ dels[d].discard = "failed"
        /\ dels[d].resp.code = 200

\* C10: when a delete call is answered, the registry has no entry for the
\* name and the auth folder is gone unless its removal failed.
C10_AckMeansRemoved ==
    \A d \in Dels :
        dels[d].pc = "done"
          => /\ ~sessions[dels[d].id].present
             /\ dels[d].discard \in {"nothing", "removed", "failed"}
             /\ (creds[dels[d].id] => dels[d].discard = "failed")

\* a delete whose logout timed out and whose ws.terminate() threw
C10_Witness ==
    \E d \in Dels :
        /\ dels[d].pc = "done"
        /\ dels[d].how = "timeout" /\ dels[d].termThrew
        /\ ~sessions[dels[d].id].present

\* C11: a delete call that has called logout() is answered even when
\* logout() never completes: the 2000 ms timer ends the wait, and then the
\* socket is closed by ws.terminate() (unless that call throws) and the
\* entry is removed.
C11_DeleteAcksThoughLogoutHangs ==
    /\ \A d \in Dels : (dels[d].pc = "racing") ~> (dels[d].pc = "done")
    /\ [](\A d \in Dels :
            (dels[d].pc = "done" /\ dels[d].how = "timeout")
              => /\ dels[d].resp.code = 200
                 /\ ~sessions[dels[d].id].present
                 /\ (~dels[d].termThrew /\ dels[d].sock # 0
                       => ~Live(socks[dels[d].sock])))

\* the timer ended the wait of a delete on a live socket, ws.terminate()
\* closed the socket and the delete is answered
C11_Witness ==
    \E d \in Dels :
        /\ dels[d].pc = "done" /\ dels[d].how = "timeout" /\ ~dels[d].termThrew
        /\ dels[d].sock # 0
        /\ socks[dels[d].sock].closedWith = "transient"
        /\ dels[d].resp.code = 200

\* C12: once a close with the loggedOut status code has been processed for a
\* name, and until the next create of that name, the status query answers
\* 404 for it; and a create call that was waiting for its initial result
\* when the log-out came has been answered with a failure.
C12_LoggedOutIsGone ==
    /\ \A s \in Socks :
          (socks[s].closedWith = "loggedOut" /\ hist.removedAt[SockId(Cur, s)] # 0)
            => FetchInstances(SockId(Cur, s)).code = 404
    /\ \A r \in Reqs :
          reqs[r].firstOcc = "closed"
            => /\ reqs[r].pc = "done" /\ reqs[r].delivered = "closed"
               /\ (reqs[r].resp # NoResp => reqs[r].resp.code = 500)

\* C13: the step in which the apiTimeout of a create call fires answers the
\* call with 500 'QR generation timeout' if it is waiting, and changes
\* nothing else: the registry, every socket, the reconnect timer, the other
\* calls and what the status query reports stay as they were; and an open
\* event that comes after the timeout still marks the entry connected.
C13_TimeoutChangesNothingElse ==
    [][/\ \A r \in Reqs :
            (reqs[r].apiTimeout = "armed" /\ reqs'[r].apiTimeout = "fired")
              => /\ sessions' = sessions /\ socks' = socks
                 /\ creds' = creds /\ dels' = dels
                 /\ reqs'[r].reconnectTimer = reqs[r].reconnectTimer
                 /\ \A r2 \in Reqs \ {r} : reqs'[r2] = reqs[r2]
                 /\ (reqs[r].pc = "waiting"
                       => /\ reqs'[r].pc = "done"
                          /\ reqs'[r].resp = [code |-> 500, status |-> "error", qr |-> 0,
                                              err |-> "QR generation timeout"])
                 /\ (reqs[r].pc # "waiting" => reqs'[r].pc = reqs[r].pc)
       /\ \A s \in Socks :
            (/\ socks[s].state = "connecting" /\ socks'[s].state = "open"
             /\ reqs[socks[s].owner].apiTimeout = "fired"
             /\ sessions[SockId(Cur, s)].present)
              => /\ sessions'[SockId(Cur, s)].isConnected
                 /\ sessions'[SockId(Cur, s)].qrCode = 0]_vars

\* a create call has just been answered with the timeout failure while its
\* entry is in the registry with a live socket that is still connecting and
\* no qr code
C13_Witness ==
    \E r \in Reqs :
        /\ reqs[r].pc = "done" /\ reqs[r].delivered = "timeout"
        /\ reqs[r].resp.code = 500 /\ reqs[r].resp.err = "QR generation timeout"
        /\ sessions[reqs[r].id].present
        /\ sessions[reqs[r].id].sock # 0
        /\ socks[sessions[reqs[r].id].sock].owner = r
        /\ socks[sessions[reqs[r].id].sock].state = "connecting"
        /\ FetchInstances(reqs[r].id) =
             [code |-> 200, connectionStatus |-> "close", qrcode |-> 0,
              createdAt |-> sessions[reqs[r].id].createdAt]

\* the sockets made by closure r, and those of them that closed without
\* the loggedOut status code
SocksOf(r) == {s \in Socks : socks[s].owner = r}
TransientClosed(r) == {s \in SocksOf(r) : socks[s].closedWith = "transient"}

\* C14: every close without the loggedOut status code is followed by one
\* startSock of the same closure, 2000 ms later: the reconnect timer it set
\* fires (as long as the model has a socket left to make), and at any
\* moment the closure has made one socket per such close, the first socket
\* aside and a pending timer counted; this does not depend on whether the
\* create call has been answered.  After one such close and an open of the
\* second socket the status query reports 'open' and no timer is pending.
C14_OneReconnectPerTransientClose ==
    /\ \A r \in Reqs :
          reqs[r].reconnectTimer ~> (~reqs[r].reconnectTimer \/ nextSock > MaxSocks)
    /\ [](\A r \in Reqs :
            /\ (SocksOf(r) = {} => ~reqs[r].reconnectTimer)
            /\ (SocksOf(r) # {}
                  => Cardinality(TransientClosed(r))
                       = Cardinality(SocksOf(r)) - 1
                           + (IF reqs[r].reconnectTimer THEN 1 ELSE 0)))
    /\ [](\A r \in Reqs : \A s1 \in Socks, s2 \in Socks :
            (/\ SocksOf(r) = {s1, s2} /\ s1 < s2
             /\ socks[s1].closedWith = "transient"
             /\ socks[s2].state = "open"
             /\ sessions[reqs[r].id].present
             /\ sessions[reqs[r].id].sock = s2)
              => /\ FetchInstances(reqs[r].id).connectionStatus = "open"
                 /\ ~reqs[r].reconnectTimer)

\* a create call timed out, its socket then closed without the loggedOut
\* code, the closure made a second socket and that socket opened
C14_Witness ==
    \E r \in Reqs : \E s1 \in Socks, s2 \in Socks :
        /\ SocksOf(r) = {s1, s2} /\ s1 < s2
        /\ \A r2 \in Reqs \ {r} : reqs[r2].pc = "idle"
        /\ reqs[r].delivered = "timeout"
        /\ socks[s1].closedWith = "transient"
        /\ socks[s2].state = "open"
        /\ sessions[reqs[r].id].present
        /\ sessions[reqs[r].id].sock = s2
        /\ sessions[reqs[r].id].isConnected
        /\ ~reqs[r].reconnectTimer

\* C15: no answer of the program hands out a qr code that was generated
\* 60000 ms or more ago: not the status query, not the qr query, not a
\* create call.
C15_NoStaleArtifactServed ==
    /\ \A id \in Ids : FetchInstances(id).qrcode \notin expired
    /\ \A id \in Ids : QrQuery(id).qrcode \notin expired
    /\ \A r \in Reqs : reqs[r].resp.qr \notin expired

\* C16: the registry holds entries only for names that were passed to
\* create, and the status queries answer 404 for a name that never was.
C16_OnlyCreatedNamesRegistered ==
    \A n \in DOMAIN sessions :
        /\ sessions[n].present => n \in hist.created
        /\ n \notin hist.created
             => FetchInstances(n).code = 404 /\ QrQuery(n).code = 404

\* a delete for a name that was never passed to create has just been
\* answered while another name has an open entry, and the registry has no
\* entry for the first name
C16_Witness ==
    \E d \in Dels, n \in DOMAIN sessions, id \in DOMAIN sessions :
        /\ dels[d].pc = "done" /\ dels[d].id = n
        /\ n \notin hist.created
        /\ id \in hist.created
        /\ sessions[id].present /\ sessions[id].isConnected
        /\ FetchInstances(n).code = 404

\* C17: a sendText for a name whose entry is connected calls
\* sock.sendMessage (once: the handler has no loop) and is answered with
\* success or, when the call throws, with the TransportError that carries
\* the error; it is never answered without the call having been made.
C17_SendOnOpenInvokesOnce ==
    lastSend.result \notin {"none", "NotConnected"}
      => /\ lastSend.invoked
         /\ lastSend.result \in {"success", "TransportError"}
         /\ lastSend.sockState # "none"

\* C18 (as stated): every webhook POST has the payload
\* {type: "message", data: {key, message, timestamp}} and goes to the URL
\* made from the instance name.
C18_PostHasMessageShape ==
    \A i \in 1..Len(posted.posts) :
        /\ posted.posts[i].payload.type = "message"
        /\ DOMAIN posted.posts[i].payload.data = {"key", "message", "timestamp"}
        /\ posted.posts[i].url =
             <<BackendUrl, "/api/v1/webhook/evolution/", SockId(Cur, posted.sock)>>

\* C18 (amended): every webhook POST has the payload
\* {type: "messages.upsert", data: {key, message, messageTimestamp}}, where
\* key and message are those of the inbound message and messageTimestamp is
\* the message's or, if it has none, the current time; it goes to
\* <backend>/api/v1/webhook/evolution/<name without 'tenant_'>, which
\* depends on the instance name only.
C18_PostHasUpsertShape ==
    LET fw == SelectSeq(posted.messages, Forwarded) IN
    \A i \in 1..Len(posted.posts) :
        /\ posted.posts[i].payload.type = "messages.upsert"
        /\ DOMAIN posted.posts[i].payload.data = {"key", "message", "messageTimestamp"}
        /\ posted.posts[i].payload.data.key = fw[i].key
        /\ posted.posts[i].payload.data.message = fw[i].message
        /\ posted.posts[i].payload.data.messageTimestamp \in {fw[i].messageTimestamp, "now"}
        /\ posted.posts[i].payload.data.messageTimestamp # ""
        /\ posted.posts[i].url =
             <<BackendUrl, "/api/v1/webhook/evolution/", SockId(Cur, posted.sock)>>

\* an event with two forwarded messages, one of them without a timestamp,
\* has issued two POSTs
C18_Witness ==
    /\ Len(posted.posts) = MaxMsgs
    /\ \E i \in 1..Len(posted.posts) :
          posted.posts[i].payload.data.messageTimestamp = "now"
    /\ \E i \in 1..Len(posted.posts) :
          posted.posts[i].payload.data.messageTimestamp = "t1"

\* C19: when the socket of an entry has closed with reason R and the entry
\* is still in the registry, the entry's lastError is R.
C19_LastErrorIsCloseReason ==
    \A id \in Ids :
        (/\ sessions[id].present /\ sessions[id].sock # 0
         /\ socks[sessions[id].sock].closedWith # "none")
          => LastError(sessions[id]) = socks[sessions[id].sock].closedWith

\* C20: while the handling of a qr event of a socket is not finished (its
\* image is being rendered, its state not yet written), no open or close
\* event of that socket is handled; and when a socket that issued a qr has
\* opened and both events are handled, the entry that holds the socket is
\* connected and has no qr code.
C20_QrHandlingNotInterleaved ==
    /\ \A s \in Socks : socks[s].rendering # {} => socks[s].state = "connecting"
    /\ \A s \in Socks :
          (/\ socks[s].state = "open" /\ socks[s].qrSeen /\ socks[s].rendering = {}
           /\ sessions[SockId(Cur, s)].present
           /\ sessions[SockId(Cur, s)].sock = s)
          => /\ sessions[SockId(Cur, s)].isConnected
             /\ sessions[SockId(Cur, s)].qrCode = 0

\* C21: qr codes take effect in the order in which the socket issued them
\* (payloads are numbered in that order): the stored qr code and its
\* qrGeneratedAt are never replaced by those of a code issued earlier, and a
\* create call is never answered with a code while a code issued before it
\* is still being rendered.
C21_CodesTakeEffectInOrder ==
    [][/\ \A id \in Ids :
            (/\ sessions[id].present /\ sessions'[id].present
             /\ sessions[id].qrCode # 0 /\ sessions'[id].qrCode # 0)
              => /\ sessions'[id].qrCode >= sessions[id].qrCode
                 /\ sessions'[id].qrGeneratedAt >= sessions[id].qrGeneratedAt
       /\ \A r \in Reqs :
            (reqs[r].resp = NoResp /\ reqs'[r].resp.code = 200 /\ reqs'[r].resp.qr # 0
             /\ reqs[r].pc = "waiting")
              => \A s \in Socks :
                    socks[s].owner = r
                      => \A q \in socks'[s].rendering : q > reqs'[r].resp.qr]_vars

\* C22: for every name there is at most one connection under way: the live
\* sockets made for the name and the pending reconnect timers of the
\* closures made for it number at most one; and a name without an entry
\* (replaced by create, removed by delete) has no pending reconnect timer.
C22_OneSessionPerName ==
    \A id \in Ids :
        /\ Cardinality({s \in Socks : Live(socks[s]) /\ SockId(Cur, s) = id})
             + Cardinality({r \in Reqs : reqs[r].id = id /\ reqs[r].reconnectTimer}) <= 1
        /\ (hist.removedAt[id] # 0
              => \A r \in Reqs : reqs[r].id = id => ~reqs[r].reconnectTimer)

\* C23: an entry holds a qr code only while its socket has issued a code and
\* is still waiting to be opened; an entry whose socket has closed, whose
\* socket is a new one that has issued no code yet, or that is connected,
\* holds none.
C23_ArtifactOnlyWhileAwaitingCode ==
    \A id \in Ids :
        (sessions[id].present /\ sessions[id].qrCode # 0)
          => /\ ~sessions[id].isConnected
             /\ sessions[id].sock # 0
             /\ socks[sessions[id].sock].state = "connecting"
             /\ socks[sessions[id].sock].qrSeen

\* the messages of the last event that are not sent by the account itself
\* and have text
TextFromOthers ==
    {i \in 1..Len(posted.messages) :
        /\ ~posted.messages[i].key.fromMe
        /\ posted.messages[i].hasMessage
        /\ \/ posted.messages[i].message.conversation # ""
           \/ posted.messages[i].message.extendedText # ""}

\* C24 (as stated): every messages.upsert event issues one POST for each of
\* its messages that is not self-authored and has text, and no other POST.
C24_OnePostPerTextMessage ==
    posted # NoEvent => Len(posted.posts) = Cardinality(TextFromOthers)

\* C24 (amended): a messages.upsert event of type 'notify' issues one POST
\* for each of its messages that is not self-authored and has text
\* (conversation or extendedTextMessage.text), in the order of the
\* messages, and no other POST; an event of any other type issues none.
C24_OnePostPerNotifiedTextMessage ==
    /\ posted.type = "notify"
         => /\ Len(posted.posts) = Cardinality(TextFromOthers)
            /\ \A i \in 1..Len(posted.posts) :
                  \E j \in TextFromOthers :
                     /\ posted.posts[i].payload.data.key = posted.messages[j].key
                     /\ posted.posts[i].payload.data.message = posted.messages[j].message
    /\ posted.type \notin {"notify", "none"} => posted.posts = <<>>

\* a 'notify' event with one message from another account that has text
\* and one sent by the account itself has issued one POST
C24_Witness ==
    /\ posted.type = "notify"
    /\ Len(posted.messages) = MaxMsgs
    /\ \E i \in 1..Len(posted.messages) : posted.messages[i].key.fromMe
    /\ Cardinality(TextFromOthers) = 1
    /\ Len(posted.posts) = 1

\* C25: the step in which a webhook POST settles, with whatever outcome,
\* changes nothing but the count of pending POSTs: no session, socket,
\* create or delete call, reply or credential changes and no POST is issued
\* again; and while POSTs are pending (possibly for ever) a live socket's
\* next message and close events can be handled.
C25_PostOutcomeChangesNothing ==
    /\ [][webhooks'.settled # webhooks.settled
            => /\ webhooks'.pending = webhooks.pending - 1
               /\ webhooks'.settled = webhooks.settled + 1
               /\ UNCHANGED <<sessions, socks, reqs, dels, creds, lastSend, posted>>]_vars
    /\ [](\A s \in Socks :
            (webhooks.pending > 0 /\ ~Replied /\ Live(socks[s]))
              => /\ ENABLED EvMessages(s, "append", <<Message(FALSE, TRUE, "hi", "", "t1")>>)
                 /\ ENABLED EvClose(s, "transient"))

\* two POSTs were issued; one has settled, one is still pending, and the
\* socket that issued them is open
C25_Witness ==
    /\ webhooks.pending = 1 /\ webhooks.settled = 1
    /\ \E s \in Socks : socks[s].state = "open"
    /\ ~Replied

\* C26: the step in which the rendering of a qr code fails changes no
\* session, no create call (its promise stays as it was, nothing is
\* answered) and not the state of the socket; and a create call that is
\* still waiting after such a failure can still be answered by every
\* outcome: its promise is pending, resolve and reject are in place and the
\* apiTimeout is armed.
C26_RenderFailureChangesNothing ==
    /\ [][\A s \in Socks :
            socks'[s].failed # socks[s].failed
              => /\ sessions' = sessions
                 /\ reqs' = reqs
                 /\ dels' = dels
                 /\ socks'[s].state = socks[s].state
                 /\ \A s2 \in Socks \ {s} : socks'[s2] = socks[s2]]_vars
    /\ [](\A s \in Socks :
            (socks[s].failed # {} /\ reqs[socks[s].owner].pc = "waiting")
              => /\ reqs[socks[s].owner].promise.st = "pending"
                 /\ reqs[socks[s].owner].qrCodeResolve
                 /\ reqs[socks[s].owner].qrCodeReject
                 /\ reqs[socks[s].owner].apiTimeout = "armed")

\* the rendering of the first qr code of a socket failed and the create
\* call has just been answered with the second
C26_Witness ==
    \E s \in Socks :
        /\ socks[s].failed # {}
        /\ reqs[socks[s].owner].pc = "done"
        /\ reqs[socks[s].owner].resp.code = 200
        /\ reqs[socks[s].owner].resp.qr # 0
        /\ \A q \in socks[s].failed : q < reqs[socks[s].owner].resp.qr

\* C27: a create call leaves the stored credentials of its name in place
\* (so that the connect attempt it begins loads them): the step in which
\* the call starts does not remove an auth folder that exists.
C27_CreateKeepsStoredCredentials ==
    [][\A r \in Reqs :
         (reqs[r].pc = "idle" /\ reqs'[r].pc # "idle" /\ creds[reqs'[r].id])
           => creds'[reqs'[r].id]]_vars

\* everything the program holds for name n: its entry, its auth folder,
\* the create calls made for it with their closures, the sockets of those
\* closures and the delete calls made for it
Footprint(n) ==
    <<sessions[n], creds[n],
      [r \in Reqs |-> IF reqs[r].id = n THEN reqs[r] ELSE IdleReq],
      [s \in Socks |-> IF socks[s].owner # 0 /\ reqs[socks[s].owner].id = n
                       THEN socks[s] ELSE NoSock],
      [d \in Dels |-> IF dels[d].id = n THEN dels[d] ELSE IdleDel]>>

\* C28: no step changes what the program holds for two names: a request,
\* timer or socket event of one name leaves the entry, sockets, qr code and
\* create calls of every other name as they were; and while a create call
\* for one name is waiting for its initial result, create, sendText and
\* delete for another name can run.
C28_NamesAreIndependent ==
    /\ [][\A a \in DOMAIN sessions, b \in DOMAIN sessions :
            (a # b /\ Footprint(a)' # Footprint(a)) => Footprint(b)' = Footprint(b)]_vars
    /\ [](\A r \in Reqs, b \in DOMAIN sessions :
            (reqs[r].pc = "waiting" /\ b # reqs[r].id /\ ~Replied)
              => /\ ENABLED Send(b, TRUE)
                 /\ \A r2 \in Reqs :
                       (reqs[r2].pc = "idle" /\ \A r3 \in Reqs : r3 < r2 => reqs[r3].pc # "idle")
                         => ENABLED CreateStart(r2, b, TRUE)
                 /\ \A d \in Dels :
                       (dels[d].pc = "idle" /\ \A d2 \in Dels : d2 < d => dels[d2].pc # "idle")
                         => ENABLED DeleteStart(d, b, FALSE))

\* while a create call for one name is waiting for its initial result, a
\* create call for another name has been answered 'open'
C28_Witness ==
    \E r1 \in Reqs, r2 \in Reqs :
        /\ reqs[r1].pc = "waiting"
        /\ reqs[r2].pc = "done" /\ reqs[r2].id # reqs[r1].id
        /\ reqs[r2].resp.code = 200 /\ reqs[r2].resp.status = "open"
        /\ sessions[reqs[r2].id].isConnected
        /\ sessions[reqs[r1].id].present /\ ~sessions[reqs[r1].id].isConnected

\* C29: every entry of the registry holds a socket and a createdAt, and the
\* createdAt of a session object does not change for as long as the object
\* is the entry of its name.
C29_EntryHoldsSockAndCreatedAt ==
    /\ [](\A id \in Ids :
            sessions[id].present
              => sessions[id].sock # 0 /\ sessions[id].createdAt # 0)
    /\ [][\A id \in Ids :
            (/\ sessions[id].present /\ sessions'[id].present
             /\ sessions'[id].obj = sessions[id].obj)
              => sessions'[id].createdAt = sessions[id].createdAt]_vars

====
